---- MODULE Spec2Model ----
(***************************************************************************)
(* Event-handler state machines of react-md: the tooltip interaction flows *)
(* (useMouseState, useKeyboardState, useTouchState), the ripple handlers   *)
(* (useRippleHandlers), the keyboard click polyfill and the GridList size  *)
(* calculation.                                                            *)
(*                                                                         *)
(* Every dispatched event is one action.  `lastEvent` names the event that *)
(* was dispatched last and `calls` is the ordered list of the functions    *)
(* its handler invoked, so that ordering and "who called what" are state   *)
(* predicates.                                                             *)
(***************************************************************************)
EXTENDS Integers, Sequences, FiniteSets, TLC

\* Delay (in clock ticks) of the show/hide timers.
Delay == 1

\* A timer that is not running.
Off == 0 - 1

VARIABLES
  hook,              \* the hook (or component) this instance is
  \* ---- tooltip: program state
  mode,              \* current user interaction mode
  initiated,         \* initiated.current
  visible,           \* tooltip visibility
  mouseTimer,        \* useTimeout of useMouseState: Off or ticks left
  keyboardTimer,     \* useTimeout of useKeyboardState
  touchTimer,        \* useTimeout of useTouchState
  touched,           \* touched.current
  touchendListener,  \* window "touchend" listener `cb` is registered
  isWindowBlurred,   \* isWindowBlurred.current
  rafPending,        \* a requestAnimationFrame callback is scheduled
  \* ---- tooltip: environment
  hovering,          \* the pointer is over the element
  focused,           \* the element has focus
  fingerDown,        \* a finger is on the element
  documentHidden,    \* document.hidden
  refocusPending,    \* the window's return owes the element a focus event
  \* ---- tooltip: observation
  mouseElapsed,      \* ticks since the mouse timer was started (capped)
  keyboardElapsed,   \* ticks since the keyboard timer was started (capped)
  touchMoveFree,     \* a touchstart happened and no touchmove since
  \* ---- ripple handlers: options
  propDisabled,      \* `disabled`
  disableRipple,
  disableProgrammaticRipple,
  \* ---- ripple handlers: environment and observation
  gesture,           \* the gesture in progress: none, key, mouse or touch
  gestureDowns,      \* down events of the current (or last) gesture
  gestureCreates,    \* create calls of the current (or last) gesture
  gestureReleases,   \* release calls of the current (or last) gesture
  holding,           \* a down event's create has no release/cancel yet
  \* ---- keyboard click polyfill: arguments and element
  clickDisabled,     \* `disabled`
  disableSpacebarClick,
  tagName,           \* event.currentTarget.tagName
  \* ---- GridList
  offsetWidth,       \* ref.current.offsetWidth
  containerPadding,
  maxCellSize,
  overflowing,       \* offsetHeight < scrollHeight
  scrollbarWidth,    \* what getScrollbarWidth() returns
  mounted,           \* ref.current is the element
  gridSize,          \* the gridSize state: [columns, cellWidth]
  prevMaxCellSize,   \* maxCellSize of the previous calculation, 0 if none
  prevColumns,       \* columns of the previous calculation
  \* ---- useVisiblityChange
  vcVisible,         \* `visible` of the last render
  vcMode,            \* `mode` of the last render: null or what initiated
  hookMounted,       \* the component using the hook is mounted
  effectCleanup,     \* the effect's last run returned its cleanup
  visibleSinceMode,  \* `mode` of the render that made it visible
  shownMode,         \* the argument of the last onShow call
  unmatchedShows,    \* onShow calls minus onHide calls so far
  \* ---- all hooks
  supplied,          \* the caller supplied its own handlers
  lastEvent,         \* the event dispatched last
  lastKey,           \* its key, for keyboard events
  calls              \* the calls its handler made, in order

tooltipVars == <<mode, initiated, visible, mouseTimer, keyboardTimer,
                 touchTimer, touched, touchendListener, isWindowBlurred,
                 rafPending, hovering, focused, fingerDown, documentHidden,
                 refocusPending,
                 mouseElapsed, keyboardElapsed, touchMoveFree>>
rippleVars == <<propDisabled, disableRipple, disableProgrammaticRipple,
                gesture, gestureDowns, gestureCreates, gestureReleases,
                holding>>
clickVars == <<clickDisabled, disableSpacebarClick, tagName>>
gridVars == <<offsetWidth, containerPadding, maxCellSize, overflowing,
              scrollbarWidth, mounted, gridSize, prevMaxCellSize,
              prevColumns>>
visibilityVars == <<vcVisible, vcMode, hookMounted, effectCleanup,
                    visibleSinceMode, shownMode, unmatchedShows>>
obsVars == <<supplied, lastEvent, lastKey, calls>>

\* What a tooltip event leaves alone.
otherHooks == <<hook, rippleVars, clickVars, gridVars, visibilityVars>>

vars == <<hook, tooltipVars, rippleVars, clickVars, gridVars,
          visibilityVars, obsVars>>

Modes == {"mouse", "keyboard", "touch"}
\* The keys the handlers tell apart, and one they do not.
TooltipKeys == {"Escape", "a"}
PolyfillKeys == {"Enter", " ", "a"}

\* ------------------------------------------------------------------------
\* Shared helpers
\* ------------------------------------------------------------------------

\* Variant: the caller's handler is invoked without the presence check.
CallerCallsUnchecked == <<"callback">>

\* The presence check `if (callback) { callback(event); }`.
CallerCalls == IF supplied THEN <<"callback">> ELSE <<>>

\* Variant: the internal transition runs before the caller's handler.
MergedInternalFirst(internal) == internal \o CallerCalls

\* A merged handler: the caller's handler, then the internal transition.
Merged(internal) == CallerCalls \o internal

Has(c) == \E i \in 1..Len(calls) : calls[i] = c
Count(c) == Cardinality({i \in 1..Len(calls) : calls[i] = c})

\* useTimeout: start() enables the timer unless it is already running,
\* stop() clears it.
TimerStart(t) == IF t = Off THEN Delay ELSE t
TimerStop == Off
Dec(t) == IF t > 0 THEN t - 1 ELSE t
ElapsedAfterStart(t, e) == IF t = Off THEN 0 ELSE e
ElapsedAfterTick(t, e) == IF t > 0 /\ e < Delay THEN e + 1 ELSE e

\* The effect of useTouchState, deps [visible, mode]: when a dependency
\* changed the previous listener is removed and the body runs again.
EffectRuns(v2, m2) == v2 # visible \/ m2 # mode
ListenerAfter(v2, m2, l2) ==
  IF EffectRuns(v2, m2) THEN (v2 /\ m2 = "touch") ELSE l2
TouchedAfter(v2, m2, t2) ==
  IF EffectRuns(v2, m2) /\ v2 /\ m2 # "touch" THEN FALSE ELSE t2

\* showTooltip() and hideTooltip() belong to the caller of these hooks:
\* showTooltip makes the tooltip visible; hideTooltip hides it and resets
\* `initiated`, which is null whenever the tooltip "hasn't been initiated
\* yet and should not be visible".
InitiatedAfterHide == "null"

\* Commit the new visibility and run the effects that depend on it.
Render(v2, t2) ==
  /\ visible' = v2
  /\ touchendListener' = ListenerAfter(v2, mode, touchendListener)
  /\ touched' = TouchedAfter(v2, mode, t2)

\* The caller's own handler is what the hook returned for this event.
CallerOnly(ev) ==
  /\ lastEvent' = ev
  /\ calls' = CallerCalls
  /\ UNCHANGED <<mode, initiated, visible, mouseTimer, keyboardTimer,
                 touchTimer, touched, touchendListener, isWindowBlurred,
                 rafPending, mouseElapsed, keyboardElapsed>>

\* User input reaches the page only while the document is visible.
UserInput == ~documentHidden

\* Variant: the mouse handlers are returned in every mode.
MouseFlowAlwaysActive == TRUE

\* useMouseState returns its own handlers unless the mode is "touch",
\* useKeyboardState only while the mode is "keyboard"; otherwise the
\* caller's handlers are returned as they are.
MouseFlowActive == mode # "touch"
KeyboardFlowActive == mode = "keyboard"

\* ------------------------------------------------------------------------
\* GridList: the size calculation
\* ------------------------------------------------------------------------

\* defaultProps of GridList, and the values its test renders with.
DefaultMaxCellSize == 150
DefaultContainerPadding == 16
TestMaxCellSize == 400
TestOffsetWidth == 1000

\* Bounds of the other inputs.
MaxOffsetWidth == 40
MaxSmallCellSize == 3
MaxScrollbarWidth == 2

OffsetWidths == (0..MaxOffsetWidth) \cup {TestOffsetWidth}
ContainerPaddings == {0, DefaultContainerPadding}
MaxCellSizes ==
  (1..MaxSmallCellSize) \cup {DefaultMaxCellSize, TestMaxCellSize}
ScrollbarWidths == {0, MaxScrollbarWidth}

Abs(x) == IF x < 0 THEN 0 - x ELSE x

RECURSIVE Gcd(_, _)
Gcd(a, b) == IF b = 0 THEN a ELSE Gcd(b, a % b)

\* A JavaScript number that is a quotient of integers: a fraction in
\* lowest terms with a positive denominator, NaN or Infinity.
Number(n, d) ==
  LET g == Gcd(Abs(n), Abs(d))
      sign == IF d < 0 THEN 0 - 1 ELSE 1
  IN [kind |-> "number", num |-> sign * (n \div g), den |-> sign * (d \div g)]
NaN == [kind |-> "NaN", num |-> 0, den |-> 0]
Infinity == [kind |-> "Infinity", num |-> 0, den |-> 0]

\* Math.ceil(width / max), for max > 0 (\div rounds down).
MathCeilDiv(width, max) == 0 - ((0 - width) \div max)

\* width / columns as JavaScript evaluates it.  A column count of zero
\* comes from a width of zero (0 / 0 is NaN) or from a negative width,
\* whose ceiling is -0 (a negative number divided by -0 is Infinity).
JsDivide(width, columns) ==
  IF columns # 0 THEN Number(width, columns)
  ELSE IF width = 0 THEN NaN
  ELSE Infinity

\* `offsetWidth - containerPadding`, less the scrollbar when the element
\* overflows.
ContainerWidth(ow, pad, ovf, sbw) ==
  IF ovf THEN ow - pad - sbw ELSE ow - pad

\* Variant: Math.floor in place of Math.ceil.
ColumnsFloor(width, max) == width \div max

Columns(width, max) == MathCeilDiv(width, max)

\* The object recalculate passes to setGridSize.
GridSize(width, max) ==
  [columns |-> Columns(width, max),
   cellWidth |-> JsDivide(width, Columns(width, max))]

\* useState(defaultSize || { columns: -1, cellWidth: maxCellSize })
DefaultSize(max) == [columns |-> 0 - 1, cellWidth |-> Number(max, 1)]

\* What the DOM can report: an element that is not rendered has no width
\* and no overflow; a rendered one is at least as wide as its padding and
\* its scrollbar.
Measurable(ow, pad, ovf, sbw) ==
  \/ ow = 0 /\ ~ovf
  \/ ow >= pad + (IF ovf THEN sbw ELSE 0)

GridDefaults ==
  /\ offsetWidth = 0
  /\ containerPadding = DefaultContainerPadding
  /\ maxCellSize = DefaultMaxCellSize
  /\ overflowing = FALSE
  /\ scrollbarWidth = 0
  /\ mounted = FALSE
  /\ gridSize = DefaultSize(DefaultMaxCellSize)
  /\ prevMaxCellSize = 0 /\ prevColumns = 0

TagNames == {"BUTTON", "A", "DIV"}

\* ------------------------------------------------------------------------
\* Initial states: each hook right after construction
\* ------------------------------------------------------------------------

TooltipIdle ==
  /\ initiated = "null"
  /\ visible = FALSE
  /\ mouseTimer = Off /\ keyboardTimer = Off /\ touchTimer = Off
  /\ touched = FALSE
  /\ touchendListener = FALSE
  /\ isWindowBlurred = FALSE
  /\ rafPending = FALSE
  /\ hovering = FALSE /\ focused = FALSE /\ fingerDown = FALSE
  /\ documentHidden = FALSE
  /\ refocusPending = FALSE
  /\ mouseElapsed = 0 /\ keyboardElapsed = 0
  /\ touchMoveFree = FALSE

RippleIdle ==
  /\ gesture = "none"
  /\ gestureDowns = 0 /\ gestureCreates = 0 /\ gestureReleases = 0
  /\ holding = FALSE

RippleDefaults ==
  /\ propDisabled = FALSE
  /\ disableRipple = FALSE
  /\ disableProgrammaticRipple = FALSE

ClickDefaults ==
  /\ clickDisabled = FALSE
  /\ disableSpacebarClick = FALSE
  /\ tagName = "DIV"

VisibilityIdle ==
  /\ vcVisible = FALSE
  /\ vcMode = "null"
  /\ hookMounted = FALSE
  /\ effectCleanup = FALSE
  /\ visibleSinceMode = "null"
  /\ shownMode = "null"
  /\ unmatchedShows = 0

ObsIdle == lastEvent = "mount" /\ lastKey = "" /\ calls = <<>>

InitTooltip ==
  /\ hook = "tooltip"
  /\ mode \in Modes
  /\ supplied \in BOOLEAN
  /\ TooltipIdle /\ RippleIdle /\ RippleDefaults /\ ClickDefaults
  /\ GridDefaults /\ ObsIdle
  /\ VisibilityIdle

InitRipple ==
  /\ hook = "ripple"
  /\ propDisabled \in BOOLEAN
  /\ disableRipple \in BOOLEAN
  /\ disableProgrammaticRipple \in BOOLEAN
  /\ supplied \in BOOLEAN
  /\ mode = "mouse"
  /\ TooltipIdle /\ RippleIdle /\ ClickDefaults /\ GridDefaults /\ ObsIdle
  /\ VisibilityIdle

InitClick ==
  /\ hook = "keyboardClick"
  /\ clickDisabled \in BOOLEAN
  /\ disableSpacebarClick \in BOOLEAN
  /\ tagName \in TagNames
  /\ supplied \in BOOLEAN
  /\ mode = "mouse"
  /\ TooltipIdle /\ RippleIdle /\ RippleDefaults /\ GridDefaults /\ ObsIdle
  /\ VisibilityIdle

InitGrid ==
  /\ hook = "gridList"
  /\ offsetWidth \in OffsetWidths
  /\ containerPadding \in ContainerPaddings
  /\ maxCellSize \in MaxCellSizes
  /\ overflowing \in BOOLEAN
  /\ scrollbarWidth \in ScrollbarWidths
  /\ Measurable(offsetWidth, containerPadding, overflowing, scrollbarWidth)
  /\ mounted = FALSE
  /\ gridSize = DefaultSize(maxCellSize)
  /\ prevMaxCellSize = 0 /\ prevColumns = 0
  /\ supplied = FALSE
  /\ mode = "mouse"
  /\ TooltipIdle /\ RippleIdle /\ RippleDefaults /\ ClickDefaults /\ ObsIdle
  /\ VisibilityIdle

\* What `mode` of useVisiblityChange can be: a TooltipInitiated.
Initiateds == {"null"} \cup Modes

\* The component is about to mount with some `visible` and `mode`.
InitVisibility ==
  /\ hook = "visibilityChange"
  /\ vcVisible \in BOOLEAN
  /\ vcMode \in Initiateds
  /\ hookMounted = FALSE
  /\ effectCleanup = FALSE
  /\ visibleSinceMode = "null"
  /\ shownMode = "null"
  /\ unmatchedShows = 0
  /\ supplied \in BOOLEAN
  /\ mode = "mouse"
  /\ TooltipIdle /\ RippleIdle /\ RippleDefaults /\ ClickDefaults
  /\ GridDefaults /\ ObsIdle

Init ==
  InitTooltip \/ InitRipple \/ InitClick \/ InitGrid \/ InitVisibility

\* ------------------------------------------------------------------------
\* useMouseState
\* ------------------------------------------------------------------------

\* Variant: the timeout callback does not look at `initiated`.
MouseTimeoutAlwaysShows == TRUE

\* `if (initiated.current === "mouse")` of the timeout callback.
MouseTimeoutShows == initiated = "mouse"

MouseTimeout ==
  /\ hook = "tooltip"
  /\ UNCHANGED otherHooks
  /\ mouseTimer = 0
  /\ mouseTimer' = Off
  /\ lastEvent' = "mouseTimer" /\ lastKey' = ""
  /\ IF MouseTimeoutShows
     THEN /\ calls' = <<"showTooltip">>
          /\ Render(TRUE, touched)
     ELSE /\ calls' = <<>>
          /\ UNCHANGED <<visible, touchendListener, touched>>
  /\ UNCHANGED <<mode, initiated, keyboardTimer, touchTimer, isWindowBlurred,
                 rafPending, hovering, focused, fingerDown, documentHidden,
                 refocusPending,
                 supplied, mouseElapsed, keyboardElapsed,
                 touchMoveFree>>

handleMouseEnter ==
  /\ lastEvent' = "mouseenter"
  /\ IF initiated # "null"
     THEN /\ calls' = Merged(<<>>)
          /\ UNCHANGED <<initiated, mouseTimer, mouseElapsed>>
     ELSE /\ calls' = Merged(<<"setInitiated", "setEstimatedPosition",
                               "start">>)
          /\ initiated' = "mouse"
          /\ mouseTimer' = TimerStart(mouseTimer)
          /\ mouseElapsed' = ElapsedAfterStart(mouseTimer, mouseElapsed)
  /\ UNCHANGED <<mode, visible, keyboardTimer, touchTimer, touched,
                 touchendListener, isWindowBlurred, rafPending,
                 keyboardElapsed>>

handleMouseLeave ==
  /\ lastEvent' = "mouseleave"
  /\ IF initiated # "mouse"
     THEN /\ calls' = Merged(<<>>)
          /\ UNCHANGED <<initiated, mouseTimer, visible, touchendListener,
                         touched>>
     ELSE /\ calls' = Merged(<<"stop", "hideTooltip">>)
          /\ mouseTimer' = TimerStop
          /\ initiated' = InitiatedAfterHide
          /\ Render(FALSE, touched)
  /\ UNCHANGED <<mode, keyboardTimer, touchTimer, isWindowBlurred,
                 rafPending, mouseElapsed, keyboardElapsed>>

MouseEnter ==
  /\ hook = "tooltip"
  /\ UNCHANGED otherHooks
  /\ UserInput
  /\ ~hovering
  /\ hovering' = TRUE
  /\ lastKey' = ""
  /\ IF MouseFlowActive THEN handleMouseEnter ELSE CallerOnly("mouseenter")
  /\ UNCHANGED <<focused, fingerDown, documentHidden,
                 refocusPending, supplied, touchMoveFree>>

MouseLeave ==
  /\ hook = "tooltip"
  /\ UNCHANGED otherHooks
  /\ UserInput
  /\ hovering
  /\ hovering' = FALSE
  /\ lastKey' = ""
  /\ IF MouseFlowActive THEN handleMouseLeave ELSE CallerOnly("mouseleave")
  /\ UNCHANGED <<focused, fingerDown, documentHidden,
                 refocusPending, supplied, touchMoveFree>>

\* ------------------------------------------------------------------------
\* useKeyboardState
\* ------------------------------------------------------------------------

\* `if (initiated.current === "keyboard")` of the timeout callback.
KeyboardTimeoutShows == initiated = "keyboard"

KeyboardTimeout ==
  /\ hook = "tooltip"
  /\ UNCHANGED otherHooks
  /\ keyboardTimer = 0
  /\ keyboardTimer' = Off
  /\ lastEvent' = "keyboardTimer" /\ lastKey' = ""
  /\ IF KeyboardTimeoutShows
     THEN /\ calls' = <<"showTooltip">>
          /\ Render(TRUE, touched)
     ELSE /\ calls' = <<>>
          /\ UNCHANGED <<visible, touchendListener, touched>>
  /\ UNCHANGED <<mode, initiated, mouseTimer, touchTimer, isWindowBlurred,
                 rafPending, hovering, focused, fingerDown, documentHidden,
                 refocusPending,
                 supplied, mouseElapsed, keyboardElapsed,
                 touchMoveFree>>

handleFocus ==
  /\ lastEvent' = "focus"
  /\ IF isWindowBlurred
     THEN /\ calls' = Merged(<<>>)
          /\ isWindowBlurred' = FALSE
          /\ UNCHANGED <<initiated, keyboardTimer, keyboardElapsed>>
     ELSE /\ calls' = Merged(<<"setInitiated", "setEstimatedPosition",
                               "start">>)
          /\ initiated' = "keyboard"
          /\ keyboardTimer' = TimerStart(keyboardTimer)
          /\ keyboardElapsed' = ElapsedAfterStart(keyboardTimer,
                                                  keyboardElapsed)
          /\ UNCHANGED isWindowBlurred
  /\ UNCHANGED <<mode, visible, mouseTimer, touchTimer, touched,
                 touchendListener, rafPending, mouseElapsed>>

handleBlur ==
  /\ lastEvent' = "blur"
  /\ calls' = Merged(<<"stop", "hideTooltip">>)
  /\ keyboardTimer' = TimerStop
  /\ initiated' = InitiatedAfterHide
  /\ Render(FALSE, touched)
  /\ UNCHANGED <<mode, mouseTimer, touchTimer, isWindowBlurred, rafPending,
                 mouseElapsed, keyboardElapsed>>

\* Variant: any key but Escape hides.
EscapeHidesOnOtherKeys(key) == initiated = "keyboard" /\ key # "Escape"

\* `initiated.current === "keyboard" && event.key === "Escape"`.
EscapeHides(key) == initiated = "keyboard" /\ key = "Escape"

handleKeyDown(key) ==
  /\ lastEvent' = "keydown"
  /\ IF EscapeHides(key)
     THEN /\ calls' = Merged(<<"stop", "hideTooltip">>)
          /\ keyboardTimer' = TimerStop
          /\ initiated' = InitiatedAfterHide
          /\ Render(FALSE, touched)
     ELSE /\ calls' = Merged(<<>>)
          /\ UNCHANGED <<keyboardTimer, initiated, visible, touchendListener,
                         touched>>
  /\ UNCHANGED <<mode, mouseTimer, touchTimer, isWindowBlurred, rafPending,
                 mouseElapsed, keyboardElapsed>>

Focus ==
  /\ hook = "tooltip"
  /\ UNCHANGED otherHooks
  /\ UserInput
  /\ ~focused
  /\ focused' = TRUE
  /\ refocusPending' = FALSE
  /\ lastKey' = ""
  /\ IF KeyboardFlowActive THEN handleFocus ELSE CallerOnly("focus")
  /\ UNCHANGED <<hovering, fingerDown, documentHidden, supplied, touchMoveFree>>

Blur ==
  /\ hook = "tooltip"
  /\ UNCHANGED otherHooks
  /\ UserInput
  /\ focused
  /\ focused' = FALSE
  /\ lastKey' = ""
  /\ IF KeyboardFlowActive THEN handleBlur ELSE CallerOnly("blur")
  /\ UNCHANGED <<hovering, fingerDown, documentHidden,
                 refocusPending, supplied, touchMoveFree>>

KeyDown ==
  /\ hook = "tooltip"
  /\ UNCHANGED otherHooks
  /\ UserInput
  /\ focused
  /\ \E key \in TooltipKeys :
       /\ lastKey' = key
       /\ IF KeyboardFlowActive THEN handleKeyDown(key)
          ELSE CallerOnly("keydown")
  /\ UNCHANGED <<hovering, focused, fingerDown, documentHidden,
                 refocusPending, supplied, touchMoveFree>>

\* The "visibilitychange" listener of the effect with deps [mode,
\* hideTooltip]; it is registered only while mode is "keyboard".
VisibilityChange ==
  /\ hook = "tooltip"
  /\ UNCHANGED otherHooks
  /\ mode = "keyboard"
  /\ documentHidden' = ~documentHidden
  /\ IF documentHidden'
     THEN UNCHANGED refocusPending
     ELSE \E owed \in BOOLEAN : /\ owed => ~focused
                                /\ refocusPending' = owed
  /\ lastEvent' = "visibilitychange" /\ lastKey' = ""
  /\ IF documentHidden'
     THEN /\ calls' = <<"hideTooltip">>
          /\ isWindowBlurred' = TRUE
          /\ initiated' = InitiatedAfterHide
          /\ Render(FALSE, touched)
          /\ UNCHANGED rafPending
     ELSE /\ calls' = <<"requestAnimationFrame">>
          /\ rafPending' = TRUE
          /\ UNCHANGED <<isWindowBlurred, initiated, visible,
                         touchendListener, touched>>
  /\ UNCHANGED <<mode, mouseTimer, keyboardTimer, touchTimer, hovering,
                 focused, fingerDown, supplied, mouseElapsed,
                 keyboardElapsed, touchMoveFree>>

AnimationFrame ==
  /\ hook = "tooltip"
  /\ UNCHANGED otherHooks
  /\ rafPending
  /\ rafPending' = FALSE
  /\ isWindowBlurred' = FALSE
  /\ lastEvent' = "animationFrame" /\ lastKey' = "" /\ calls' = <<>>
  /\ UNCHANGED <<mode, initiated, visible, mouseTimer, keyboardTimer,
                 touchTimer, touched, touchendListener, hovering, focused,
                 fingerDown, documentHidden, refocusPending, supplied,
                 mouseElapsed, keyboardElapsed, touchMoveFree>>

\* ------------------------------------------------------------------------
\* useTouchState
\* ------------------------------------------------------------------------

TouchTimeout ==
  /\ hook = "tooltip"
  /\ UNCHANGED otherHooks
  /\ touchTimer = 0
  /\ touchTimer' = Off
  /\ lastEvent' = "touchTimer" /\ lastKey' = ""
  /\ calls' = <<"hideTooltip">>
  /\ initiated' = InitiatedAfterHide
  /\ Render(FALSE, FALSE)
  /\ UNCHANGED <<mode, mouseTimer, keyboardTimer, isWindowBlurred,
                 rafPending, hovering, focused, fingerDown, documentHidden,
                 refocusPending,
                 supplied, mouseElapsed, keyboardElapsed,
                 touchMoveFree>>

\* handleTouchStart calls stop() on the hide timer.
TouchStartTimer == TimerStop

handleTouchStart ==
  /\ lastEvent' = "touchstart"
  /\ calls' = Merged(<<"stop", "setEstimatedPosition">>)
  /\ touched' = TRUE
  /\ touchTimer' = TouchStartTimer
  /\ UNCHANGED <<mode, initiated, visible, mouseTimer, keyboardTimer,
                 touchendListener, isWindowBlurred, rafPending, mouseElapsed,
                 keyboardElapsed>>

handleTouchMove ==
  /\ lastEvent' = "touchmove"
  /\ calls' = Merged(<<>>)
  /\ touched' = FALSE
  /\ UNCHANGED <<mode, initiated, visible, mouseTimer, keyboardTimer,
                 touchTimer, touchendListener, isWindowBlurred, rafPending,
                 mouseElapsed, keyboardElapsed>>

\* Variant: handleContextMenu without its `touched` guard.
ContextMenuAlwaysShows == TRUE

\* `if (!touched.current) return;` of handleContextMenu.
ContextMenuShows == touched

handleContextMenu ==
  /\ lastEvent' = "contextmenu"
  /\ IF ContextMenuShows
     THEN /\ calls' = Merged(<<"preventDefault", "setInitiated",
                               "showTooltip">>)
          /\ initiated' = "touch"
          /\ Render(TRUE, touched)
     ELSE /\ calls' = Merged(<<>>)
          /\ UNCHANGED <<initiated, visible, touchendListener, touched>>
  /\ UNCHANGED <<mode, mouseTimer, keyboardTimer, touchTimer,
                 isWindowBlurred, rafPending, mouseElapsed, keyboardElapsed>>

TouchStart ==
  /\ hook = "tooltip"
  /\ UNCHANGED otherHooks
  /\ UserInput
  /\ ~fingerDown
  /\ fingerDown' = TRUE
  /\ touchMoveFree' = TRUE
  /\ lastKey' = ""
  /\ handleTouchStart
  /\ UNCHANGED <<hovering, focused, documentHidden, refocusPending, supplied>>

TouchMove ==
  /\ hook = "tooltip"
  /\ UNCHANGED otherHooks
  /\ UserInput
  /\ fingerDown
  /\ touchMoveFree' = FALSE
  /\ lastKey' = ""
  /\ handleTouchMove
  /\ UNCHANGED <<hovering, focused, fingerDown, documentHidden,
                 refocusPending, supplied>>

\* A long press raises "contextmenu" while the finger is down; with a
\* mouse it is a right click.
ContextMenu ==
  /\ hook = "tooltip"
  /\ UNCHANGED otherHooks
  /\ UserInput
  /\ mode = "touch" => fingerDown
  /\ lastKey' = ""
  /\ IF mode = "touch" THEN handleContextMenu ELSE CallerOnly("contextmenu")
  /\ UNCHANGED <<hovering, focused, fingerDown, documentHidden,
                 refocusPending, supplied, touchMoveFree>>

\* The finger is lifted: "touchend" reaches the window listener `cb`, if
\* it is registered; cb starts the hide timer and removes itself.
TouchEnd ==
  /\ hook = "tooltip"
  /\ UNCHANGED otherHooks
  /\ UserInput
  /\ fingerDown
  /\ fingerDown' = FALSE
  /\ lastEvent' = "touchend" /\ lastKey' = ""
  /\ IF touchendListener
     THEN /\ calls' = <<"start">>
          /\ touchTimer' = TimerStart(touchTimer)
          /\ touchendListener' = FALSE
     ELSE /\ calls' = <<>>
          /\ UNCHANGED <<touchTimer, touchendListener>>
  /\ UNCHANGED <<mode, initiated, visible, mouseTimer, keyboardTimer,
                 touched, isWindowBlurred, rafPending, hovering, focused,
                 documentHidden, refocusPending, supplied, mouseElapsed,
                 keyboardElapsed, touchMoveFree>>

\* ------------------------------------------------------------------------
\* Environment: the interaction mode changes, time passes
\* ------------------------------------------------------------------------

SetMode ==
  /\ hook = "tooltip"
  /\ UNCHANGED otherHooks
  /\ \E m \in Modes :
    /\ UserInput
    /\ m # mode
    /\ mode' = m
    /\ touchendListener' = ListenerAfter(visible, m, touchendListener)
    /\ touched' = TouchedAfter(visible, m, touched)
    /\ lastEvent' = "setMode" /\ lastKey' = "" /\ calls' = <<>>
    /\ UNCHANGED <<initiated, visible, mouseTimer, keyboardTimer,
                   touchTimer, isWindowBlurred, rafPending, hovering,
                   focused, fingerDown, documentHidden,
                   refocusPending, supplied, mouseElapsed, keyboardElapsed,
                   touchMoveFree>>

Tick ==
  /\ hook = "tooltip"
  /\ UNCHANGED otherHooks
  /\ mouseTimer > 0 \/ keyboardTimer > 0 \/ touchTimer > 0
  /\ mouseTimer' = Dec(mouseTimer)
  /\ keyboardTimer' = Dec(keyboardTimer)
  /\ touchTimer' = Dec(touchTimer)
  /\ mouseElapsed' = ElapsedAfterTick(mouseTimer, mouseElapsed)
  /\ keyboardElapsed' = ElapsedAfterTick(keyboardTimer, keyboardElapsed)
  /\ lastEvent' = "tick" /\ lastKey' = "" /\ calls' = <<>>
  /\ UNCHANGED <<mode, initiated, visible, touched, touchendListener,
                 isWindowBlurred, rafPending, hovering, focused, fingerDown,
                 documentHidden, refocusPending, supplied, touchMoveFree>>

\* ------------------------------------------------------------------------
\* useRippleHandlers
\* ------------------------------------------------------------------------

\* Key-down events of one key press: the first and its auto-repeats.
MaxRepeat == 2

NumberOf(c, seq) == Cardinality({i \in 1..Len(seq) : seq[i] = c})

\* Variant: disableRipple is ignored.
RippleDisabledByPropOnly == propDisabled

\* `const disabled = propDisabled || disableRipple;`
RippleDisabled == propDisabled \/ disableRipple

\* What the hook returns for an event other than click: the caller's
\* handler when disabled, the merged handler otherwise.
RippleHandler(internal) ==
  IF RippleDisabled THEN CallerCalls ELSE Merged(internal)

\* Variant: a down handler that forgets create.
DownCallsNothing == <<>>

\* The internal part of onKeyDown, onMouseDown and onTouchStart.
DownCalls == <<"create">>

\* Variant: an up handler that calls create instead of release.
UpCallsCreate == <<"create">>

\* The internal part of onKeyUp, onMouseUp and onTouchEnd.
UpCalls == <<"release">>

\* The internal part of onMouseLeave and of onTouchMove.
MouseLeaveCalls == <<"cancel(true)">>
TouchMoveCalls == <<"cancel(false)">>

\* The internal part of onClick.
ClickCalls(activeIsTarget) ==
  IF disableProgrammaticRipple \/ activeIsTarget THEN <<>> ELSE <<"create">>

\* `disabled || disableProgrammaticRipple ? handlers.onClick : onClick`
ClickHandler(activeIsTarget) ==
  IF RippleDisabled \/ disableProgrammaticRipple THEN CallerCalls
  ELSE Merged(ClickCalls(activeIsTarget))

Ended(seq) ==
  NumberOf("release", seq) + NumberOf("cancel(true)", seq)
    + NumberOf("cancel(false)", seq) > 0

\* A ripple event that belongs to a gesture: the handler runs and the
\* observation of the gesture is brought up to date.
RippleEvent(ev, seq, starts, isDown) ==
  /\ hook = "ripple"
  /\ lastEvent' = ev /\ lastKey' = ""
  /\ calls' = seq
  /\ gestureDowns' = (IF starts THEN 0 ELSE gestureDowns)
                     + (IF isDown THEN 1 ELSE 0)
  /\ gestureCreates' = (IF starts THEN 0 ELSE gestureCreates)
                       + NumberOf("create", seq)
  /\ gestureReleases' = (IF starts THEN 0 ELSE gestureReleases)
                        + NumberOf("release", seq)
  /\ holding' = IF Ended(seq) THEN FALSE
                ELSE IF isDown /\ NumberOf("create", seq) > 0 THEN TRUE
                ELSE holding
  /\ UNCHANGED <<hook, visibilityVars,
                 tooltipVars, clickVars, gridVars, supplied,
                 propDisabled, disableRipple, disableProgrammaticRipple>>

RippleKeyDown ==
  /\ gesture \in {"none", "key"}
  /\ gesture = "key" => gestureDowns < MaxRepeat
  /\ gesture' = "key"
  /\ RippleEvent("keydown", RippleHandler(DownCalls), gesture = "none", TRUE)

RippleKeyUp ==
  /\ gesture = "key"
  /\ gesture' = "none"
  /\ RippleEvent("keyup", RippleHandler(UpCalls), FALSE, FALSE)

RippleMouseDown ==
  /\ gesture = "none"
  /\ gesture' = "mouse"
  /\ RippleEvent("mousedown", RippleHandler(DownCalls), TRUE, TRUE)

RippleMouseUp ==
  /\ gesture = "mouse"
  /\ gesture' = "none"
  /\ RippleEvent("mouseup", RippleHandler(UpCalls), FALSE, FALSE)

\* The pointer leaves the element, with the button pressed or not.
RippleMouseLeave ==
  /\ gesture \in {"none", "mouse"}
  /\ gesture' = "none"
  /\ RippleEvent("mouseleave", RippleHandler(MouseLeaveCalls), FALSE, FALSE)

RippleTouchStart ==
  /\ gesture = "none"
  /\ gesture' = "touch"
  /\ RippleEvent("touchstart", RippleHandler(DownCalls), TRUE, TRUE)

RippleTouchMove ==
  /\ gesture = "touch"
  /\ gesture' = "touch"
  /\ RippleEvent("touchmove", RippleHandler(TouchMoveCalls), FALSE, FALSE)

RippleTouchEnd ==
  /\ gesture = "touch"
  /\ gesture' = "none"
  /\ RippleEvent("touchend", RippleHandler(UpCalls), FALSE, FALSE)

\* A click, programmatic (the element is not the active element) or not.
\* It belongs to no gesture.
RippleClick ==
  /\ hook = "ripple"
  /\ gesture = "none"
  /\ lastEvent' = "click" /\ lastKey' = ""
  /\ \E activeIsTarget \in BOOLEAN : calls' = ClickHandler(activeIsTarget)
  /\ UNCHANGED <<hook, visibilityVars,
                 tooltipVars, rippleVars, clickVars, gridVars,
                 supplied>>

\* ------------------------------------------------------------------------
\* useKeyboardClickPolyfill
\* ------------------------------------------------------------------------

\* The condition under which handleKeyDown returns without clicking.
PolyfillSkips(key, tag) ==
  \/ (key # "Enter" /\ key # " ")
  \/ tag = "BUTTON"
  \/ (tag = "A" /\ key = " ")
  \/ (key = " " /\ disableSpacebarClick)

PolyfillCalls(key, tag) ==
  IF PolyfillSkips(key, tag) THEN <<>>
  ELSE (IF key = " " THEN <<"preventDefault">> ELSE <<>>)
       \o <<"stopPropagation", "click">>

\* `return disabled ? onKeyDown : handleKeyDown;`
PolyfillHandler(key, tag) ==
  IF clickDisabled THEN CallerCalls ELSE Merged(PolyfillCalls(key, tag))

PolyfillKeyDown ==
  /\ hook = "keyboardClick"
  /\ \E key \in PolyfillKeys :
       /\ lastKey' = key
       /\ calls' = PolyfillHandler(key, tagName)
  /\ lastEvent' = "keydown"
  /\ UNCHANGED <<hook, visibilityVars,
                 tooltipVars, rippleVars, clickVars, gridVars,
                 supplied>>

\* ------------------------------------------------------------------------
\* GridList
\* ------------------------------------------------------------------------

\* recalculate(), called with ref.current set.
Recalculate(ow, pad, max, ovf, sbw) ==
  gridSize' = GridSize(ContainerWidth(ow, pad, ovf, sbw), max)

\* refHandler(instance): the element is attached and measured.
GridMount ==
  /\ hook = "gridList"
  /\ ~mounted
  /\ mounted' = TRUE
  /\ Recalculate(offsetWidth, containerPadding, maxCellSize, overflowing,
                 scrollbarWidth)
  /\ lastEvent' = "ref"
  /\ UNCHANGED <<hook, visibilityVars,
                 tooltipVars, rippleVars, clickVars, offsetWidth,
                 containerPadding, maxCellSize, overflowing, scrollbarWidth,
                 prevMaxCellSize, prevColumns, supplied, lastKey, calls>>

\* The resize observer reports a new size: onResize is recalculate.
GridResize ==
  /\ hook = "gridList"
  /\ mounted
  /\ \E ow \in OffsetWidths, ovf \in BOOLEAN :
       /\ ow # offsetWidth \/ ovf # overflowing
       /\ Measurable(ow, containerPadding, ovf, scrollbarWidth)
       /\ offsetWidth' = ow
       /\ overflowing' = ovf
       /\ Recalculate(ow, containerPadding, maxCellSize, ovf, scrollbarWidth)
  /\ prevMaxCellSize' = 0 /\ prevColumns' = 0
  /\ lastEvent' = "resize"
  /\ UNCHANGED <<hook, visibilityVars,
                 tooltipVars, rippleVars, clickVars, containerPadding,
                 maxCellSize, scrollbarWidth, mounted, supplied, lastKey,
                 calls>>

\* A render with another maxCellSize: recalculate and refHandler are new
\* callbacks, so the ref is attached again and the size recalculated.
GridSetMaxCellSize ==
  /\ hook = "gridList"
  /\ mounted
  /\ \E max \in MaxCellSizes :
       /\ max # maxCellSize
       /\ maxCellSize' = max
       /\ Recalculate(offsetWidth, containerPadding, max, overflowing,
                      scrollbarWidth)
  /\ prevMaxCellSize' = maxCellSize
  /\ prevColumns' = gridSize.columns
  /\ lastEvent' = "rerender"
  /\ UNCHANGED <<hook, visibilityVars,
                 tooltipVars, rippleVars, clickVars, offsetWidth,
                 containerPadding, overflowing, scrollbarWidth, mounted,
                 supplied, lastKey, calls>>

\* ------------------------------------------------------------------------
\* useVisiblityChange
\* ------------------------------------------------------------------------

MaxUnmatched == 2

\* Variant: the effect only looks at `visible`.
EffectSkipsWhenHidden(v, m) == ~v

\* `if (!visible || mode === null) return;`
EffectSkips(v, m) == ~v \/ m = "null"

\* The body of the effect, run with the props of this render.
EffectCalls(v, m) ==
  IF ~EffectSkips(v, m) /\ supplied THEN <<"onShow">> ELSE <<>>

\* The cleanup the previous run returned, if it returned one.
CleanupCalls == IF effectCleanup /\ supplied THEN <<"onHide">> ELSE <<>>

Unmatched(n) ==
  IF n > MaxUnmatched THEN MaxUnmatched ELSE IF n < 0 - 1 THEN 0 - 1 ELSE n

\* React runs the previous cleanup, then the effect.
RunEffect(v, m, cleanup) ==
  /\ calls' = cleanup \o EffectCalls(v, m)
  /\ effectCleanup' = ~EffectSkips(v, m)
  /\ shownMode' = IF EffectCalls(v, m) # <<>> THEN m ELSE shownMode
  /\ unmatchedShows' =
       Unmatched(unmatchedShows - Len(cleanup) + Len(EffectCalls(v, m)))

VisibilityMount ==
  /\ hook = "visibilityChange"
  /\ ~hookMounted
  /\ hookMounted' = TRUE
  /\ lastEvent' = "mounted" /\ lastKey' = ""
  /\ visibleSinceMode' = IF vcVisible THEN vcMode ELSE "null"
  /\ RunEffect(vcVisible, vcMode, <<>>)
  /\ UNCHANGED <<hook, tooltipVars, rippleVars, clickVars, gridVars,
                 vcVisible, vcMode, supplied>>

\* A render with new props; the effect's only dependency is `visible`.
VisibilityRender ==
  /\ hook = "visibilityChange"
  /\ hookMounted
  /\ lastEvent' = "render" /\ lastKey' = ""
  /\ \E v \in BOOLEAN, m \in Initiateds :
       /\ vcVisible' = v
       /\ vcMode' = m
       /\ IF v # vcVisible
          THEN /\ visibleSinceMode' = IF v THEN m ELSE "null"
               /\ RunEffect(v, m, CleanupCalls)
          ELSE /\ calls' = <<>>
               /\ UNCHANGED <<effectCleanup, visibleSinceMode, shownMode,
                              unmatchedShows>>
  /\ UNCHANGED <<hook, tooltipVars, rippleVars, clickVars, gridVars,
                 hookMounted, supplied>>

VisibilityUnmount ==
  /\ hook = "visibilityChange"
  /\ hookMounted
  /\ hookMounted' = FALSE
  /\ lastEvent' = "unmount" /\ lastKey' = ""
  /\ calls' = CleanupCalls
  /\ effectCleanup' = FALSE
  /\ visibleSinceMode' = "null"
  /\ unmatchedShows' = Unmatched(unmatchedShows - Len(CleanupCalls))
  /\ UNCHANGED <<hook, tooltipVars, rippleVars, clickVars, gridVars,
                 vcVisible, vcMode, shownMode, supplied>>

\* ------------------------------------------------------------------------
\* Specifications
\* ------------------------------------------------------------------------

Next ==
  \/ MouseEnter \/ MouseLeave \/ MouseTimeout
  \/ Focus \/ Blur \/ KeyDown \/ KeyboardTimeout
  \/ VisibilityChange \/ AnimationFrame
  \/ TouchStart \/ TouchMove \/ ContextMenu \/ TouchEnd \/ TouchTimeout
  \/ SetMode \/ Tick
  \/ RippleKeyDown \/ RippleKeyUp \/ RippleMouseDown \/ RippleMouseUp
  \/ RippleMouseLeave \/ RippleTouchStart \/ RippleTouchMove
  \/ RippleTouchEnd \/ RippleClick
  \/ PolyfillKeyDown
  \/ GridMount \/ GridResize \/ GridSetMaxCellSize
  \/ VisibilityMount \/ VisibilityRender \/ VisibilityUnmount

\* Every hook.
Spec == Init /\ [][Next]_vars

TooltipNext ==
  \/ MouseEnter \/ MouseLeave \/ MouseTimeout
  \/ Focus \/ Blur \/ KeyDown \/ KeyboardTimeout
  \/ VisibilityChange \/ AnimationFrame
  \/ TouchStart \/ TouchMove \/ ContextMenu \/ TouchEnd \/ TouchTimeout
  \/ SetMode \/ Tick

\* The tooltip hooks alone.
TooltipSpec == InitTooltip /\ [][TooltipNext]_vars

RippleNext ==
  \/ RippleKeyDown \/ RippleKeyUp \/ RippleMouseDown \/ RippleMouseUp
  \/ RippleMouseLeave \/ RippleTouchStart \/ RippleTouchMove
  \/ RippleTouchEnd \/ RippleClick

\* The ripple handlers alone.
RippleSpec == InitRipple /\ [][RippleNext]_vars

GridNext == GridMount \/ GridResize \/ GridSetMaxCellSize

\* GridList alone.
GridSpec == InitGrid /\ [][GridNext]_vars

VisibilityNext == VisibilityMount \/ VisibilityRender \/ VisibilityUnmount

\* useVisiblityChange alone.
VisibilitySpec == InitVisibility /\ [][VisibilityNext]_vars

\* The touch flow in touch mode: the finger, the long press and time.
InitTouch == InitTooltip /\ mode = "touch"

TouchNext ==
  \/ TouchStart \/ TouchMove \/ ContextMenu \/ TouchEnd \/ TouchTimeout
  \/ MouseEnter \/ MouseLeave
  \/ Tick

\* Time passes and a due timer runs its callback.
TouchFairSpec ==
  InitTouch /\ [][TouchNext]_vars /\ WF_vars(Tick) /\ WF_vars(TouchTimeout)

\* ------------------------------------------------------------------------
\* Properties
\* ------------------------------------------------------------------------

\* C1: in the mouse and keyboard flows showTooltip is called only by the
\* show timer, once the delay has elapsed since the event that started it
\* and only while `initiated` still is the mode that started it; no mouse
\* or keyboard event handler calls showTooltip.
C1_ShowOnlyByTimer ==
  (hook = "tooltip" /\ Has("showTooltip") /\ lastEvent # "contextmenu") =>
    \/ /\ lastEvent = "mouseTimer"
       /\ initiated = "mouse"
       /\ mouseElapsed >= Delay
    \/ /\ lastEvent = "keyboardTimer"
       /\ initiated = "keyboard"
       /\ keyboardElapsed >= Delay

C1_Witness ==
  /\ hook = "tooltip"
  /\ lastEvent = "mouseTimer"
  /\ Has("showTooltip")
  /\ visible

\* The events of each hook whose handler wraps a caller-supplied one.
HandlerEvents ==
  IF hook = "tooltip"
    THEN {"mouseenter", "mouseleave", "focus", "blur", "keydown",
          "touchstart", "touchmove", "contextmenu"}
  ELSE IF hook = "ripple"
    THEN {"keydown", "keyup", "mousedown", "mouseup", "mouseleave",
          "touchstart", "touchmove", "touchend", "click"}
  ELSE IF hook = "keyboardClick" THEN {"keydown"}
  ELSE {}

\* C2: every handler calls the caller-supplied handler first and exactly
\* once, whatever its internal transition does, also when a guard skips it.
C2_CallerFirstOnce ==
  (supplied /\ lastEvent \in HandlerEvents) =>
    /\ Len(calls) >= 1
    /\ calls[1] = "callback"
    /\ Count("callback") = 1

C2_Witness ==
  /\ hook = "tooltip"
  /\ mode = "mouse"
  /\ lastEvent = "mouseenter"
  /\ initiated = "keyboard"
  /\ calls = <<"callback">>

\* The container width the size was calculated from.
MeasuredWidth ==
  offsetWidth - containerPadding - (IF overflowing THEN scrollbarWidth ELSE 0)

C4_ColumnsMonotonic ==
  (hook = "gridList" /\ mounted /\ prevMaxCellSize > 0) =>
    /\ prevMaxCellSize <= maxCellSize => prevColumns >= gridSize.columns
    /\ maxCellSize <= prevMaxCellSize => gridSize.columns >= prevColumns

\* C5: after every recalculation the cell width is at most maxCellSize.
C5_CellWidthAtMostMax ==
  (hook = "gridList" /\ mounted) =>
    /\ gridSize.cellWidth.kind = "number"
    /\ gridSize.cellWidth.num <= maxCellSize * gridSize.cellWidth.den

DownEvents == {"keydown", "mousedown", "touchstart"}
UpEvents == {"keyup", "mouseup", "touchend"}
RippleEnabled == ~(propDisabled \/ disableRipple)

\* C6 as stated: one gesture invokes create once and release once, and a
\* further down or up event of the gesture invokes neither again.
C6_OncePerGesture ==
  hook = "ripple" => (gestureCreates <= 1 /\ gestureReleases <= 1)

\* C6, amended: each down event invokes create exactly once and each up
\* event release exactly once, so a gesture of one down and one up event
\* invokes each once; a repeated down event invokes create again.
C6_OncePerEvent ==
  (hook = "ripple" /\ RippleEnabled) =>
    /\ lastEvent \in DownEvents => Count("create") = 1
    /\ lastEvent \in UpEvents => Count("release") = 1
    /\ gestureCreates = gestureDowns
    /\ (gesture = "none" /\ lastEvent \in UpEvents) => gestureReleases = 1

C6_Witness ==
  /\ hook = "ripple" /\ RippleEnabled
  /\ gesture = "none" /\ lastEvent = "keyup"
  /\ gestureDowns = 2 /\ gestureCreates = 2 /\ gestureReleases = 1

\* C7: with ripples enabled create is called on keydown, mousedown and
\* touchstart, release on keyup, mouseup and touchend, cancel(true) on
\* mouseleave and cancel(false) on touchmove; no other event calls release
\* or cancel, and once a gesture is over no ripple it created is left
\* without its release or cancel.
C7_RippleLifecycle ==
  (hook = "ripple" /\ RippleEnabled) =>
    /\ lastEvent \in DownEvents => Has("create")
    /\ Has("release") <=> lastEvent \in UpEvents
    /\ Has("cancel(true)") <=> lastEvent = "mouseleave"
    /\ Has("cancel(false)") <=> lastEvent = "touchmove"
    /\ Has("create") => lastEvent \in DownEvents \cup {"click"}
    /\ gesture = "none" => ~holding

C7_Witness ==
  /\ hook = "ripple" /\ RippleEnabled
  /\ lastEvent = "touchend" /\ gesture = "none"
  /\ gestureCreates = 1 /\ Has("release") /\ ~holding

\* C8: with the ripple effect disabled every one of the nine events runs
\* exactly the caller's handler (nothing when there is none), so create,
\* release and cancel are never called.
C8_DisabledReturnsCallerHandlers ==
  (hook = "ripple" /\ (propDisabled \/ disableRipple)
     /\ lastEvent \in HandlerEvents) =>
    /\ calls = (IF supplied THEN <<"callback">> ELSE <<>>)
    /\ gestureCreates = 0 /\ gestureReleases = 0 /\ ~holding

C8_Witness ==
  /\ hook = "ripple"
  /\ ~propDisabled /\ disableRipple
  /\ lastEvent = "mouseup" /\ gestureDowns = 1
  /\ calls = <<"callback">>

TouchFlowEvents ==
  {"touchstart", "touchmove", "contextmenu", "touchend", "touchTimer"}

C10_TouchFinallyHides ==
  (hook = "tooltip" /\ visible /\ ~fingerDown) ~> (~visible \/ fingerDown)


\* C11: in keyboard mode, the focus event that the previously focused
\* element receives after the document was hidden and became visible again
\* neither sets initiated nor starts the keyboard show timer, whether the
\* animation-frame callback that resets isWindowBlurred has run or not.
C11_RefocusNeverInitiates ==
  [][(/\ hook = "tooltip"
      /\ mode = "keyboard"
      /\ refocusPending
      /\ lastEvent' = "focus")
     => (/\ initiated' = initiated
         /\ keyboardTimer' = keyboardTimer
         /\ \A i \in 1..Len(calls') : calls'[i] # "start")]_vars


\* The step ran nothing but the caller's own handler: its call, when one
\* was supplied, and no change of the tooltip's state.
CallerHandlerOnlyStep ==
  /\ calls' = IF supplied THEN <<"callback">> ELSE <<>>
  /\ UNCHANGED <<initiated, visible, mouseTimer, keyboardTimer, touchTimer,
                 touched, touchendListener, isWindowBlurred, rafPending>>

\* C12: while the mode is "touch", mouseenter and mouseleave reach only the
\* caller's handlers and neither set initiated, start or stop the mouse
\* timer, nor hide the tooltip; while the mode is not "keyboard", focus,
\* blur and keydown reach only the caller's handlers as well.
C12_FlowsGatedByMode ==
  [][hook = "tooltip" =>
       /\ (mode = "touch" /\ lastEvent' \in {"mouseenter", "mouseleave"})
            => CallerHandlerOnlyStep
       /\ (mode # "keyboard" /\ lastEvent' \in {"focus", "blur", "keydown"})
            => CallerHandlerOnlyStep]_vars

\* A mouseleave in touch mode that the mouse flow would have acted on
\* (initiated is "mouse", its timer pending) reached the caller only.
C12_Witness ==
  /\ hook = "tooltip"
  /\ mode = "touch"
  /\ lastEvent = "mouseleave"
  /\ initiated = "mouse"
  /\ mouseTimer # Off
  /\ calls = <<"callback">>

MouseCancelledStep ==
  /\ mouseTimer' = Off
  /\ \E i \in 1..Len(calls') : calls'[i] = "stop"
  /\ \E i \in 1..Len(calls') : calls'[i] = "hideTooltip"
  /\ ~visible'
KeyboardCancelledStep ==
  /\ keyboardTimer' = Off
  /\ \E i \in 1..Len(calls') : calls'[i] = "stop"
  /\ \E i \in 1..Len(calls') : calls'[i] = "hideTooltip"
  /\ ~visible'

\* C14, as stated: after a mouseleave while initiated is "mouse", after a
\* blur in keyboard mode and after an Escape keydown while initiated is
\* "keyboard", the flow's pending show timer is stopped and hideTooltip is
\* called, so no timer started before the event is left to call showTooltip.
C14_CancelStopsTimer ==
  [][hook = "tooltip" =>
       /\ (initiated = "mouse" /\ lastEvent' = "mouseleave")
            => MouseCancelledStep
       /\ (mode = "keyboard" /\ lastEvent' = "blur")
            => KeyboardCancelledStep
       /\ (initiated = "keyboard" /\ lastEvent' = "keydown"
           /\ lastKey' = "Escape")
            => KeyboardCancelledStep]_vars

\* C14, amended: the same, for the events the flow's own handler receives:
\* a mouseleave while initiated is "mouse" and the mode is not "touch", a
\* blur in keyboard mode, and an Escape keydown in keyboard mode while
\* initiated is "keyboard".
C14_ActiveFlowCancels ==
  [][hook = "tooltip" =>
       /\ (mode # "touch" /\ initiated = "mouse" /\ lastEvent' = "mouseleave")
            => MouseCancelledStep
       /\ (mode = "keyboard" /\ lastEvent' = "blur")
            => KeyboardCancelledStep
       /\ (mode = "keyboard" /\ initiated = "keyboard"
           /\ lastEvent' = "keydown" /\ lastKey' = "Escape")
            => KeyboardCancelledStep]_vars

\* Escape was pressed in keyboard mode on a focused element: the keyboard
\* timer is stopped and the tooltip hidden.
C14_Witness ==
  /\ hook = "tooltip"
  /\ mode = "keyboard"
  /\ focused
  /\ lastEvent = "keydown" /\ lastKey = "Escape"
  /\ calls = <<"callback", "stop", "hideTooltip">>
  /\ keyboardTimer = Off
  /\ mouseTimer # Off

\* What a handler did besides calling the caller's handler.
InternalOf(seq) == SelectSeq(seq, LAMBDA c : c # "callback")

ShowSequence == <<"setInitiated", "setEstimatedPosition", "start">>
HideSequence == <<"stop", "hideTooltip">>

\* The internal calls the tooltip handler of this step's event owes, read
\* off the state the event found; nothing here depends on `supplied`.
TooltipInternal ==
  IF lastEvent' = "mouseenter"
    THEN IF mode # "touch" /\ initiated = "null"
           THEN {ShowSequence} ELSE {<<>>}
  ELSE IF lastEvent' = "mouseleave"
    THEN IF mode # "touch" /\ initiated = "mouse"
           THEN {HideSequence} ELSE {<<>>}
  ELSE IF lastEvent' = "focus"
    THEN IF mode = "keyboard" /\ ~isWindowBlurred
           THEN {ShowSequence} ELSE {<<>>}
  ELSE IF lastEvent' = "blur"
    THEN IF mode = "keyboard" THEN {HideSequence} ELSE {<<>>}
  ELSE IF lastEvent' = "keydown"
    THEN IF mode = "keyboard" /\ initiated = "keyboard"
            /\ lastKey' = "Escape"
           THEN {HideSequence} ELSE {<<>>}
  ELSE IF lastEvent' = "touchstart"
    THEN {<<"stop", "setEstimatedPosition">>}
  ELSE IF lastEvent' = "contextmenu"
    THEN IF mode = "touch" /\ touched
           THEN {<<"preventDefault", "setInitiated", "showTooltip">>}
           ELSE {<<>>}
  ELSE {<<>>}

RippleInternal ==
  IF lastEvent' = "click"
    THEN IF propDisabled \/ disableRipple \/ disableProgrammaticRipple
           THEN {<<>>} ELSE {<<>>, <<"create">>}
  ELSE IF propDisabled \/ disableRipple THEN {<<>>}
  ELSE IF lastEvent' \in {"keydown", "mousedown", "touchstart"}
    THEN {<<"create">>}
  ELSE IF lastEvent' \in {"keyup", "mouseup", "touchend"}
    THEN {<<"release">>}
  ELSE IF lastEvent' = "mouseleave" THEN {<<"cancel(true)">>}
  ELSE {<<"cancel(false)">>}

PolyfillInternal ==
  IF clickDisabled THEN {<<>>}
  ELSE IF lastKey' = "Enter" /\ tagName # "BUTTON"
    THEN {<<"stopPropagation", "click">>}
  ELSE IF lastKey' = " " /\ tagName \notin {"BUTTON", "A"}
          /\ ~disableSpacebarClick
    THEN {<<"preventDefault", "stopPropagation", "click">>}
  ELSE {<<>>}

\* The state the tooltip's internal calls leave behind.
TooltipInternalState(done) ==
  LET did(c) == \E i \in 1..Len(done) : done[i] = c
  IN /\ done = ShowSequence =>
          /\ initiated' = (IF lastEvent' = "focus" THEN "keyboard"
                           ELSE "mouse")
          /\ IF lastEvent' = "focus" THEN keyboardTimer' # Off
             ELSE mouseTimer' # Off
     /\ done = HideSequence =>
          /\ ~visible'
          /\ IF lastEvent' = "mouseleave" THEN mouseTimer' = Off
             ELSE keyboardTimer' = Off
     /\ did("showTooltip") => (visible' /\ initiated' = "touch")
     /\ lastEvent' = "touchstart" => (touched' /\ touchTimer' = Off)
     /\ lastEvent' = "touchmove" => ~touched'
     /\ done = <<>> /\ lastEvent' # "touchmove" =>
          UNCHANGED <<initiated, visible, mouseTimer, keyboardTimer,
                      touchTimer, touched, isWindowBlurred>>
          \/ (lastEvent' = "focus" /\ isWindowBlurred /\ ~isWindowBlurred'
              /\ UNCHANGED <<initiated, visible, mouseTimer, keyboardTimer,
                             touchTimer, touched>>)

\* C15: for every merged handler (ripple, tooltip mouse, keyboard and touch,
\* keyboard click) a missing caller callback is found by the presence check
\* and not invoked, and the handler's internal calls and the state they
\* leave are those the event owes in the state it found, the same whether
\* a callback was supplied or not.
C15_AbsentCallbackSameTransition ==
  [][lastEvent' \in HandlerEvents =>
       LET done == IF supplied /\ calls' # <<>> THEN Tail(calls') ELSE calls'
       IN /\ done = InternalOf(calls')
          /\ supplied => (calls' # <<>> /\ Head(calls') = "callback")
          /\ hook = "tooltip" =>
               (done \in TooltipInternal /\ TooltipInternalState(done))
          /\ hook = "ripple" => done \in RippleInternal
          /\ hook = "keyboardClick" => done \in PolyfillInternal]_vars

\* Without a caller callback a mouseenter in mouse mode set initiated and
\* started the mouse timer.
C15_Witness ==
  /\ ~supplied
  /\ hook = "tooltip"
  /\ mode = "mouse"
  /\ lastEvent = "mouseenter"
  /\ calls = ShowSequence
  /\ initiated = "mouse"
  /\ mouseTimer # Off

====
